---------------------------- MODULE Spec2Model ----------------------------
(***************************************************************************)
(* Model of tools/检查文件头/check_headers.py: the header-comment checker   *)
(* and fixer (scan_file) and its weekday validator                         *)
(* (validate_date_weekday).                                                *)
(*                                                                         *)
(* Text.  A Python str is modelled as a sequence of tokens.  A token is an *)
(* indivisible run of characters: [k |-> <its characters>, y, m, d], where *)
(* y, m, d are 0 except for a date token, which stands for the ten         *)
(* characters YYYY-MM-DD with those digits.  Every regular expression and  *)
(* string method of the source is modelled by what it does to such a       *)
(* sequence, given the characters each token stands for.  Non-ASCII text   *)
(* of the source is written in pinyin: "zhou" is the character 周, and      *)
(* "yi","er","san","si","wu","liu","ri" are the glyphs 一二三四五六日.      *)
(* An Optional value is a sequence of length 0 (None) or 1.                *)
(***************************************************************************)
EXTENDS Integers, Sequences, FiniteSets, TLC

VARIABLES disk, log, date_str, result, passes, run

vars == <<disk, log, date_str, result, passes, run>>

-----------------------------------------------------------------------------
(* Tokens *)

Tk(s) == [k |-> s, y |-> 0, m |-> 0, d |-> 0]

DateTok(yy, mm, dd) == [k |-> "date", y |-> yy, m |-> mm, d |-> dd]

SP == Tk(" ")
TAB == Tk("\t")
NL == Tk("\n")
OPEN == Tk("/**")
CLOSE == Tk("*/")
STAR == Tk("*")
UTC8 == Tk("(UTC+8)")
ZHOU == Tk("zhou")

None == <<>>

Some(x) == <<x>>

\* \s of the re module
IsSpace(t) == t.k \in {" ", "\t", "\n"}

\* \d{4}-\d{2}-\d{2}
IsDate(t) == t.k = "date"

\* \d{2}:\d{2}:\d{2}
IsTime(t) == t.k \in {"10:00:00", "23:59:59"}

\* [一二三四五六日]
IsGlyph(t) == t.k \in {"yi", "er", "san", "si", "wu", "liu", "ri"}

\* the token's first character is not a \w character, so that \b holds
\* between a tag name and this token
NonWordStart(t) ==
    \/ IsSpace(t)
    \/ t.k \in {"/**", "*/", "*", ":", ";", "(UTC+8)", "(gen",
                "@file", "@brief", "@date", "@change", "@author"}

\* str.lower() of one token
LowerTok(t) ==
    CASE t.k = "A.H" -> Tk("a.h")
      [] t.k = "TODO:" -> Tk("todo:")
      [] t.k = "YYYY-MM-DD" -> Tk("yyyy-mm-dd")
      [] t.k = "HH:MM" -> Tk("hh:mm")
      [] t.k = "(UTC+8)" -> Tk("(utc+8)")
      [] t.k = "Sakurakugu" -> Tk("sakurakugu")
      [] OTHER -> t

-----------------------------------------------------------------------------
(* str methods *)

lower(s) == [i \in 1..Len(s) |-> LowerTok(s[i])]

\* p occurs in s at index i
OccursAt(s, p, i) ==
    /\ i >= 1
    /\ i + Len(p) - 1 <= Len(s)
    /\ \A j \in 1..Len(p) : s[i + j - 1] = p[j]

startswith(s, p) == OccursAt(s, p, 1)

Least(S) == CHOOSE i \in S : \A j \in S : i <= j

Greatest(S) == CHOOSE i \in S : \A j \in S : j <= i

LeastOrZero(S) == IF S = {} THEN 0 ELSE Least(S)

\* least index >= from at which p occurs in s, 0 when there is none
Find(s, p, from) ==
    LeastOrZero({i \in from..(Len(s) - Len(p) + 1) : OccursAt(s, p, i)})

\* p in s
Contains(s, p) == Find(s, p, 1) # 0

Tail_from(s, i) == SubSeq(s, i, Len(s))

RECURSIVE ReplaceFrom(_, _, _), ReplaceAt(_, _, _, _)
\* s with the occurrence of old at index i, and every later one, replaced
ReplaceAt(s, old, new, i) ==
    IF i = 0 THEN s
    ELSE SubSeq(s, 1, i - 1) \o new
         \o ReplaceFrom(Tail_from(s, i + Len(old)), old, new)

ReplaceFrom(s, old, new) == ReplaceAt(s, old, new, Find(s, old, 1))

RECURSIVE Intersperse(_, _)
Intersperse(s, new) ==
    IF s = <<>> THEN new
    ELSE new \o <<Head(s)>> \o Intersperse(Tail(s), new)

\* str.replace(old, new): every non-overlapping occurrence, left to right;
\* an empty old matches before every character and at the end (the model
\* inserts at token boundaries)
replace(s, old, new) ==
    IF old = <<>> THEN Intersperse(s, new) ELSE ReplaceFrom(s, old, new)

RECURSIVE LStrip(_)
LStrip(s) == IF s # <<>> /\ IsSpace(Head(s)) THEN LStrip(Tail(s)) ELSE s

RECURSIVE RStrip(_)
RStrip(s) ==
    IF s # <<>> /\ IsSpace(s[Len(s)]) THEN RStrip(SubSeq(s, 1, Len(s) - 1))
    ELSE s

strip(s) == RStrip(LStrip(s))

\* index of the first token of s at or after i that satisfies no IsSpace,
\* Len(s) + 1 when there is none
RECURSIVE SkipSpace(_, _)
SkipSpace(s, i) ==
    IF i <= Len(s) /\ IsSpace(s[i]) THEN SkipSpace(s, i + 1) ELSE i

\* index of the first token at or after i that is a space or a newline
\* (Len(s) + 1 when none)
RECURSIVE SkipWord(_, _)
SkipWord(s, i) ==
    IF i <= Len(s) /\ ~IsSpace(s[i]) THEN SkipWord(s, i + 1) ELSE i

\* s.split()[0] for a stripped, non-empty s
FirstWord(s) == SubSeq(s, 1, SkipWord(s, 1) - 1)

\* index of the first newline at or after i, Len(s) + 1 when none
RECURSIVE LineEnd(_, _)
LineEnd(s, i) ==
    IF i <= Len(s) /\ s[i] # NL THEN LineEnd(s, i + 1) ELSE i

\* str.splitlines(): the lines without their newlines; a final newline
\* opens no further line
RECURSIVE splitlines(_), SplitAt(_, _)
SplitAt(s, e) == <<SubSeq(s, 1, e - 1)>> \o splitlines(Tail_from(s, e + 1))

splitlines(s) == IF s = <<>> THEN <<>> ELSE SplitAt(s, LineEnd(s, 1))

\* "\n".join(lines)
RECURSIVE join(_)
join(lines) ==
    IF lines = <<>> THEN <<>>
    ELSE IF Len(lines) = 1 THEN lines[1]
    ELSE lines[1] \o <<NL>> \o join(Tail(lines))

-----------------------------------------------------------------------------
(* Regular expressions *)

\* HEADER_RE.search(content): ^\s*/\*\*(?P<body>.*?)\*/ with DOTALL.  The
\* match is anchored at the start of the content; the body runs to the
\* first closer after the opener.
HeaderBetween(content, i, c) ==
    IF c = 0 THEN [found |-> FALSE, body |-> <<>>]
    ELSE [found |-> TRUE, body |-> SubSeq(content, i + 1, c - 1)]

HeaderFrom(content, i) ==
    HeaderBetween(content, i,
                  IF i <= Len(content) /\ content[i] = OPEN
                  THEN Find(content, <<CLOSE>>, i + 1) ELSE 0)

HEADER_RE_search(content) == HeaderFrom(content, SkipSpace(content, 1))

TagNames == {"file", "brief", "date", "change", "author"}

\* the alternation file|brief|date|change|author after the @
TagNameOf(t) ==
    CASE t.k = "@file" -> "file"
      [] t.k = "@brief" -> "brief"
      [] t.k = "@date" -> "date"
      [] t.k = "@change" -> "change"
      [] t.k = "@author" -> "author"
      [] OTHER -> ""

\* @(?P<tag>...)\b matches at index i
TagAt(s, i) ==
    /\ TagNameOf(s[i]) # ""
    /\ i = Len(s) \/ NonWordStart(s[i + 1])

\* TAG_RE.finditer(s) from index i on: @tag \b \s* (?P<value>.*).  \s*
\* runs over newlines too; the value is the rest of the line it stops in;
\* the search goes on after the match.
RECURSIVE TAG_RE_finditer(_, _), TagMatch(_, _, _, _)
\* the match of the tag at index i, its value being s[j .. e - 1]
TagMatch(s, i, j, e) ==
    <<[tag |-> TagNameOf(s[i]), value |-> SubSeq(s, j, e - 1)]>>
    \o TAG_RE_finditer(s, e)

TagValueFrom(s, i, j) == TagMatch(s, i, j, LineEnd(s, j))

TAG_RE_finditer(s, i) ==
    IF i > Len(s) THEN <<>>
    ELSE IF TagAt(s, i) THEN TagValueFrom(s, i, SkipSpace(s, i + 1))
    ELSE TAG_RE_finditer(s, i + 1)

\* {match.group("tag"): match.group("value").strip() for match in ...}:
\* a later match of a tag overwrites an earlier one.  tags.get(t) is
\* None (<<>>) or Some(value).
LastValue(ms, idx) ==
    IF idx = {} THEN None ELSE Some(strip(ms[Greatest(idx)].value))

TagDict(ms) ==
    [t \in TagNames |-> LastValue(ms, {i \in 1..Len(ms) : ms[i].tag = t})]

tags_of(header_body) == TagDict(TAG_RE_finditer(header_body, 1))

\* DATE_PREFIX_RE.search(s) finds a match
DATE_PREFIX_RE_search(s) == \E i \in 1..Len(s) : IsDate(s[i])

\* DATE_WITH_WEEKDAY_RE matched at index i:
\* date \s+ time \s* \(UTC\+8\) \s* 周 glyph
\* with the date at i, the time at t, (UTC+8) at u and 周 at z
NoMatch ==
    [ok |-> FALSE, start |-> 0, end |-> 0, date |-> SP, time |-> SP,
     weekday |-> SP]

WeekdayMatchParts(s, i, t, u, z) ==
    IF /\ i >= 1 /\ i <= Len(s) /\ IsDate(s[i])
       /\ t > i + 1
       /\ t <= Len(s) /\ IsTime(s[t])
       /\ u <= Len(s) /\ s[u] = UTC8
       /\ z < Len(s) /\ s[z] = ZHOU
       /\ IsGlyph(s[z + 1])
    THEN [ok |-> TRUE, start |-> i, end |-> z + 1, date |-> s[i],
          time |-> s[t], weekday |-> s[z + 1]]
    ELSE NoMatch

WeekdayMatchZone(s, i, t, u) ==
    WeekdayMatchParts(s, i, t, u, SkipSpace(s, u + 1))

WeekdayMatchTime(s, i, t) == WeekdayMatchZone(s, i, t, SkipSpace(s, t + 1))

WeekdayMatchAt(s, i) == WeekdayMatchTime(s, i, SkipSpace(s, i + 1))

WeekdayMatchFirst(s, hits) ==
    IF hits = {} THEN NoMatch ELSE WeekdayMatchAt(s, Least(hits))

\* DATE_WITH_WEEKDAY_RE.search(s): the leftmost match
DATE_WITH_WEEKDAY_RE_search(s) ==
    WeekdayMatchFirst(s, {i \in 1..Len(s) : WeekdayMatchAt(s, i).ok})

\* DATE_WITH_WEEKDAY_RE.sub(lambda m: f"{date} {time} (UTC+8) 周{expected}", s):
\* every match, left to right, is rewritten with its own date and time and
\* the one expected glyph
RECURSIVE DATE_WITH_WEEKDAY_RE_sub(_, _), SubMatch(_, _, _)
SubMatch(s, expected_weekday, mt) ==
    IF ~mt.ok THEN s
    ELSE SubSeq(s, 1, mt.start - 1)
         \o <<mt.date, SP, mt.time, SP, UTC8, SP, ZHOU, expected_weekday>>
         \o DATE_WITH_WEEKDAY_RE_sub(Tail_from(s, mt.end + 1),
                                     expected_weekday)

DATE_WITH_WEEKDAY_RE_sub(s, expected_weekday) ==
    SubMatch(s, expected_weekday, DATE_WITH_WEEKDAY_RE_search(s))

-----------------------------------------------------------------------------
(* datetime *)

is_leap(yy) == yy % 4 = 0 /\ (yy % 100 # 0 \/ yy % 400 = 0)

days_in_month(yy, mm) ==
    IF mm = 2 THEN (IF is_leap(yy) THEN 29 ELSE 28)
    ELSE IF mm \in {4, 6, 9, 11} THEN 30 ELSE 31

\* a parse that accepts every day number up to 31 in every month
strptime_ok_any_month(t) ==
    /\ t.y \in 1..9999
    /\ t.m \in 1..12
    /\ t.d \in 1..31

\* datetime.strptime(date_part, "%Y-%m-%d") returns (no ValueError)
strptime_ok(t) ==
    /\ t.y \in 1..9999
    /\ t.m \in 1..12
    /\ t.d \in 1..days_in_month(t.y, t.m)

RECURSIVE days_before_month(_, _)
days_before_month(yy, mm) ==
    IF mm <= 1 THEN 0
    ELSE days_before_month(yy, mm - 1) + days_in_month(yy, mm - 1)

toordinal(t) ==
    LET y1 == t.y - 1
    IN  y1 * 365 + (y1 \div 4) - (y1 \div 100) + (y1 \div 400)
        + days_before_month(t.y, t.m) + t.d

\* a weekday number that starts the week on Sunday
weekday_sunday_first(t) == toordinal(t) % 7

\* date_obj.weekday(): 0 = Monday ... 6 = Sunday
weekday(t) == (toordinal(t) + 6) % 7

weekday_map ==
    [n \in 0..6 |->
        CASE n = 0 -> Tk("yi")
          [] n = 1 -> Tk("er")
          [] n = 2 -> Tk("san")
          [] n = 3 -> Tk("si")
          [] n = 4 -> Tk("wu")
          [] n = 5 -> Tk("liu")
          [] n = 6 -> Tk("ri")]

-----------------------------------------------------------------------------
(* validate_date_weekday *)

WeekdayValidationResult(v, msg, correct, declared, corrected) ==
    [is_valid |-> v, error_message |-> msg, correct_weekday |-> correct,
     declared_weekday |-> declared, corrected_date_str |-> corrected]

\* f"日期 {date_part} 应该是周{expected}，但标记为周{declared}"
MismatchMessage(date_part, expected, declared) ==
    <<Tk("riqi"), date_part, Tk("yinggaishi"), ZHOU, expected,
      Tk("dan biaojiwei"), ZHOU, declared>>

\* f"无法解析日期: {date_part}"
UnparsableMessage(date_part) == <<Tk("wufa jiexi riqi:"), date_part>>

\* a comparison whose corrected string keeps the declared glyph
compare_weekday_declared(s, date_part, declared_weekday, expected_weekday) ==
    IF declared_weekday # expected_weekday
    THEN WeekdayValidationResult(FALSE,
             Some(MismatchMessage(date_part, expected_weekday,
                                  declared_weekday)),
             Some(expected_weekday), Some(declared_weekday),
             Some(DATE_WITH_WEEKDAY_RE_sub(s, declared_weekday)))
    ELSE WeekdayValidationResult(TRUE, None, None, None, None)

\* the comparison of the declared glyph with the expected one, for a
\* date that parsed
compare_weekday(s, date_part, declared_weekday, expected_weekday) ==
    IF declared_weekday # expected_weekday
    THEN WeekdayValidationResult(FALSE,
             Some(MismatchMessage(date_part, expected_weekday,
                                  declared_weekday)),
             Some(expected_weekday), Some(declared_weekday),
             Some(DATE_WITH_WEEKDAY_RE_sub(s, expected_weekday)))
    ELSE WeekdayValidationResult(TRUE, None, None, None, None)

\* the body of validate_date_weekday once the search is done
validate_match(s, match) ==
    IF ~match.ok
    THEN WeekdayValidationResult(TRUE, None, None, None, None)
    ELSE IF ~strptime_ok(match.date)
    THEN WeekdayValidationResult(FALSE,
             Some(UnparsableMessage(match.date)), None, None, None)
    ELSE compare_weekday(s, match.date, match.weekday,
                         weekday_map[weekday(match.date)])

validate_date_weekday(s) == validate_match(s, DATE_WITH_WEEKDAY_RE_search(s))

-----------------------------------------------------------------------------
(* The fixes *)

\* f"@{tag}"
TagTok(tag) ==
    CASE tag = "file" -> Tk("@file")
      [] tag = "brief" -> Tk("@brief")
      [] tag = "date" -> Tk("@date")
      [] tag = "change" -> Tk("@change")
      [] OTHER -> Tk("@author")

\* The first line holding @tag has its text from @tag on replaced by
\* "@tag value"; with no such line, " * @tag value" is appended as a line.
\* re.sub(rf"@{tag}.*", f"@{tag} {value}", line), @tag being at index at
SubTagInLine(line, tag, value, at) ==
    SubSeq(line, 1, at - 1) \o <<TagTok(tag), SP>> \o value

\* lines with line i rewritten (i = 0: no line holds @tag, and one is added)
InsertOrReplaceIn(lines, tag, value, i) ==
    IF i # 0
    THEN [lines EXCEPT ![i] = SubTagInLine(@, tag, value,
                                           Find(@, <<TagTok(tag)>>, 1))]
    ELSE Append(lines, <<SP, STAR, SP, TagTok(tag), SP>> \o value)

InsertOrReplaceLines(lines, tag, value) ==
    InsertOrReplaceIn(lines, tag, value,
        LeastOrZero({i \in 1..Len(lines) :
                        Contains(lines[i], <<TagTok(tag)>>)}))

insert_or_replace_tag(header_body, tag, value) ==
    join(InsertOrReplaceLines(splitlines(header_body), tag, value))

\* re.sub(rf"(@{tag})\s+{re.escape(old)}", f"@{tag} {new}", s, count=1):
\* the first place where @tag, at least one whitespace character and old
\* follow one another becomes "@tag new"; without such a place s is returned
TagSubAt(s, tag, old, new, i) ==
    IF i = 0 THEN s
    ELSE SubSeq(s, 1, i - 1) \o <<TagTok(tag), SP>> \o new
         \o Tail_from(s, SkipSpace(s, i + 1) + Len(old))

TagSubOnce(s, tag, old, new) ==
    TagSubAt(s, tag, old, new,
        LeastOrZero({i \in 1..Len(s) :
                        /\ s[i] = TagTok(tag)
                        /\ i < Len(s) /\ IsSpace(s[i + 1])
                        /\ OccursAt(s, old, SkipSpace(s, i + 1))}))

replace_file_name(header_body, old, new) ==
    TagSubOnce(header_body, "file", old, new)

replace_tag_value(header_body, tag, old_value, new_value) ==
    TagSubOnce(header_body, tag, old_value, new_value)

DEFAULT_AUTHOR == Tk("Sakurakugu")

\* f"TODO: 补充 {filename} 摘要"
BriefPlaceholder(filename) ==
    <<Tk("TODO:"), SP, Tk("buchong"), SP>> \o filename \o <<SP, Tk("zhaiyao")>>

build_header_template(filename) ==
    <<OPEN, NL>>
    \o <<SP, STAR, SP, Tk("@file"), SP>> \o filename \o <<NL>>
    \o <<SP, STAR, SP, Tk("@brief"), SP>> \o BriefPlaceholder(filename)
    \o <<NL>>
    \o <<SP, STAR, NL>>
    \o <<SP, STAR, SP, Tk("(gen"), SP, Tk("@brief"), SP, Tk("desc)"), NL>>
    \o <<SP, STAR, SP, Tk("@author"), SP, DEFAULT_AUTHOR, NL>>
    \o <<SP, STAR, SP, Tk("@date"), SP, Tk("YYYY-MM-DD"), SP, Tk("HH:MM"), SP,
         UTC8, NL>>
    \o <<SP, CLOSE, NL>>

-----------------------------------------------------------------------------
(* scan_file *)

Violation(file, code, message, fix_applied) ==
    [file |-> file, code |-> code, message |-> message,
     fix_applied |-> fix_applied]

\* path.name
name_of(path) == <<Tk(path)>>

\* The state of one scan: the content in memory, the violations so far and
\* the contents handed to path.write_text, in order.
ScanState(content) == [content |-> content, violations |-> <<>>, writes |-> <<>>]

Report(st, v) == [st EXCEPT !.violations = Append(@, v)]

\* content = content.replace(header_body, new_body);
\* path.write_text(content); violations.append(Violation(..., True))
WriteFix(st, path, content, code, message) ==
    [content |-> content,
     violations |-> Append(st.violations, Violation(path, code, message, TRUE)),
     writes |-> Append(st.writes, content)]

ApplyFix(st, path, header_body, new_body, code, message) ==
    WriteFix(st, path, replace(st.content, header_body, new_body), code,
             message)

\* an @file comparison that rewrites the file in check mode too
CheckDeclared_always_fixes(st, path, header_body, declared, actual, fix) ==
    IF declared # actual
    THEN ApplyFix(st, path, header_body,
                  replace_file_name(header_body, declared, actual),
                  "file_name_mismatch", "@file corrected")
    ELSE st

\* the @file rule
\* the comparison of the first word of the @file value with the name
CheckDeclared(st, path, header_body, declared, actual, fix) ==
    IF declared # actual
    THEN IF fix
         THEN ApplyFix(st, path, header_body,
                       replace_file_name(header_body, declared, actual),
                       "file_name_mismatch", "@file corrected")
         ELSE Report(st, Violation(path, "file_name_mismatch",
                                   "@file differs from the file name", FALSE))
    ELSE st

CheckFileTag(st, path, header_body, tags, fix) ==
    IF tags["file"] = None \/ tags["file"][1] = <<>>
    THEN IF fix
         THEN ApplyFix(st, path, header_body,
                       insert_or_replace_tag(header_body, "file",
                                             name_of(path)),
                       "missing_file_tag", "@file missing, added")
         ELSE Report(st, Violation(path, "missing_file_tag", "@file missing",
                                   FALSE))
    ELSE CheckDeclared(st, path, header_body, FirstWord(tags["file"][1]),
                       name_of(path), fix)

\* the @brief rule
CheckBriefValue(st, path, header_body, brief, actual, fix) ==
    IF brief = <<>>
    THEN IF fix
         THEN ApplyFix(st, path, header_body,
                       insert_or_replace_tag(header_body, "brief",
                                             BriefPlaceholder(actual)),
                       "missing_brief", "@brief missing, placeholder added")
         ELSE Report(st, Violation(path, "missing_brief",
                                   "@brief missing or empty", FALSE))
    ELSE IF startswith(lower(brief), lower(actual))
    THEN Report(st, Violation(path, "weak_brief",
                              "@brief repeats the file name", FALSE))
    ELSE st

\* brief = tags.get("brief", "").strip()
CheckBrief(st, path, header_body, tags, fix) ==
    CheckBriefValue(st, path, header_body,
                    IF tags["brief"] = None THEN <<>>
                    ELSE strip(tags["brief"][1]),
                    name_of(path), fix)

\* the weekday check of the value of @date or @change
CheckWeekdayResult(st, path, header_body, tag, value, fix, weekday_result) ==
    IF weekday_result.is_valid THEN st
    ELSE IF fix /\ weekday_result.corrected_date_str # None
    THEN ApplyFix(st, path, header_body,
                  replace_tag_value(header_body, tag, value,
                                    weekday_result.corrected_date_str[1]),
                  "wrong_weekday",
                  IF tag = "date" THEN "@date weekday fixed"
                  ELSE "@change weekday fixed")
    ELSE Report(st, Violation(path, "wrong_weekday",
                              IF tag = "date" THEN "@date weekday wrong"
                              ELSE "@change weekday wrong", FALSE))

CheckWeekday(st, path, header_body, tag, value, fix) ==
    CheckWeekdayResult(st, path, header_body, tag, value, fix,
                       validate_date_weekday(value))

\* the @date rule
CheckDate(st, path, header_body, tags, fix) ==
    IF tags["date"] = None \/ tags["date"][1] = <<>>
    THEN Report(st, Violation(path, "missing_date", "@date missing", FALSE))
    ELSE IF ~DATE_PREFIX_RE_search(tags["date"][1])
    THEN Report(st, Violation(path, "bad_date", "@date has no YYYY-MM-DD",
                              FALSE))
    ELSE CheckWeekday(st, path, header_body, "date", tags["date"][1], fix)

\* the @change rule
CheckChange(st, path, header_body, tags, fix) ==
    IF tags["change"] = None \/ tags["change"][1] = <<>> THEN st
    ELSE IF ~DATE_PREFIX_RE_search(tags["change"][1])
    THEN Report(st, Violation(path, "bad_change", "@change has no date",
                              FALSE))
    ELSE CheckWeekday(st, path, header_body, "change", tags["change"][1], fix)

\* a rule engine that stops at the @file rule when it reports
CheckTags_stops_at_file(st, path, header_body, tags, fix) ==
    IF CheckFileTag(st, path, header_body, tags, fix).violations # <<>>
    THEN CheckFileTag(st, path, header_body, tags, fix)
    ELSE CheckChange(CheckDate(CheckBrief(st, path, header_body, tags, fix),
                               path, header_body, tags, fix),
                     path, header_body, tags, fix)

\* scan_file(path, fix) on a file that was read as content: the violations
\* returned and the contents written, in order
\* the four tag rules, in the order of scan_file, each on the scan state
\* the one before left; header_body and tags are those of the content read
CheckTags(st, path, header_body, tags, fix) ==
    CheckChange(
        CheckDate(
            CheckBrief(
                CheckFileTag(st, path, header_body, tags, fix),
                path, header_body, tags, fix),
            path, header_body, tags, fix),
        path, header_body, tags, fix)

\* a missing-header fix that writes the header in place of the content
MissingHeader_overwrites(path, content, fix) ==
    IF fix
    THEN [content |-> content,
          violations |-> <<Violation(path, "missing_header",
                                     "header missing, inserted", TRUE)>>,
          writes |-> <<build_header_template(name_of(path))>>]
    ELSE Report(ScanState(content),
                Violation(path, "missing_header", "header missing", FALSE))

\* the scan of a content with no header
MissingHeader(path, content, fix) ==
    IF fix
    THEN [content |-> content,
          violations |-> <<Violation(path, "missing_header",
                                     "header missing, inserted", TRUE)>>,
          writes |-> <<build_header_template(name_of(path)) \o content>>]
    ELSE Report(ScanState(content),
                Violation(path, "missing_header", "header missing", FALSE))

ScanHeader(path, content, fix, mh) ==
    IF ~mh.found THEN MissingHeader(path, content, fix)
    ELSE CheckTags(ScanState(content), path, mh.body, tags_of(mh.body), fix)

scan_file(path, content, fix) ==
    ScanHeader(path, content, fix, HEADER_RE_search(content))

-----------------------------------------------------------------------------
(* The files the scans start from *)

MaxScans == 3

Files == {"a.h"}

T1 == Tk("10:00:00")

Code == <<Tk("int"), SP, Tk("x;"), NL>>

\* "\n * @tag<rest>"
TagLine(tag, rest) == <<NL, SP, STAR, SP, TagTok(tag)>> \o rest

\* " <date> 10:00:00 (UTC+8) 周<glyph>"
Stamp(date, glyph) == <<SP, date, SP, T1, SP, UTC8, SP, ZHOU, Tk(glyph)>>

\* " <date> 10:00:00(UTC+8) 周<glyph>", the spacing of the dates at the top
\* of check_headers.py
TightStamp(date, glyph) == <<SP, date, SP, T1, UTC8, SP, ZHOU, Tk(glyph)>>

FileLines ==
    { <<>>,
      TagLine("file", <<SP, Tk("a.h")>>),
      TagLine("file", <<SP, Tk("b.h")>>),
      TagLine("file", <<SP, Tk("b.h"), SP, Tk("txt")>>),
      TagLine("file", <<Tk(":"), SP, Tk("b.h")>>),
      TagLine("file", <<TAB, Tk("b.h")>>),
      TagLine("file", <<>>) }

BriefLines ==
    { <<>>,
      TagLine("brief", <<SP, Tk("txt")>>),
      TagLine("brief", <<>>),
      TagLine("brief", <<SP, Tk("A.H"), SP, Tk("txt")>>) }

DateLines ==
    { <<>>,
      TagLine("date", Stamp(DateTok(2025, 9, 16), "er")),
      TagLine("date", Stamp(DateTok(2025, 9, 16), "yi")),
      TagLine("date", TightStamp(DateTok(2025, 9, 16), "yi")),
      TagLine("date", Stamp(DateTok(2025, 2, 30), "yi")),
      TagLine("date", <<SP, Tk("txt")>>) }

ChangeLines ==
    { <<>>,
      TagLine("change", Stamp(DateTok(2025, 9, 17), "san")),
      TagLine("change", Stamp(DateTok(2025, 9, 17), "yi")),
      TagLine("change", <<SP, Tk("txt")>>) }

\* "/**<lines>\n */\n"
Header(lines) == <<OPEN>> \o lines \o <<NL, SP, CLOSE, NL>>

HeaderFiles ==
    { Header(f \o b \o d \o c) \o Code :
        f \in FileLines, b \in BriefLines, d \in DateLines, c \in ChangeLines }

GoodLines ==
    TagLine("file", <<SP, Tk("a.h")>>) \o TagLine("brief", <<SP, Tk("txt")>>)
    \o TagLine("date", Stamp(DateTok(2025, 9, 16), "er"))

OtherFiles ==
    { <<>>,
      Code,
      <<OPEN>> \o GoodLines \o Code,
      <<NL>> \o Header(GoodLines) \o Code,
      Code \o Header(GoodLines),
      <<OPEN, CLOSE, NL>> \o Code,
      Header(TagLine("file", <<SP, Tk("b.h")>>)) \o Code
          \o Header(TagLine("file", <<SP, Tk("b.h")>>)),
      Header(TagLine("file", <<SP, Tk("a.h")>>)
             \o TagLine("file", <<SP, Tk("b.h")>>)
             \o TagLine("brief", <<SP, Tk("txt")>>)
             \o TagLine("date", Stamp(DateTok(2025, 9, 16), "er"))) \o Code,
      Header(TagLine("brief", <<SP, Tk("txt")>>)
             \o TagLine("date", Stamp(DateTok(2025, 9, 16), "yi"))
             \o TagLine("date", Stamp(DateTok(2025, 9, 16), "er"))
             \o TagLine("file", <<SP, Tk("a.h")>>)) \o Code,
      Header(TagLine("date", <<>>)) \o Code }

InitialContents == HeaderFiles \cup OtherFiles

-----------------------------------------------------------------------------
(* The scans *)

NoResult == WeekdayValidationResult(TRUE, None, None, None, None)

\* main is not running
NoRun == [pc |-> "idle"]

Init ==
    /\ disk \in [Files -> InitialContents]
    /\ log = <<>>
    /\ date_str = <<>>
    /\ result = NoResult
    /\ passes = 0
    /\ run = NoRun

\* what a scan leaves on disk: the last content written, if any
AfterScan(content, writes) ==
    IF writes = <<>> THEN content ELSE writes[Len(writes)]

\* the record of one scan: what was on disk, what scan_file returned and
\* wrote (r), and what is on disk after it
ScanRecord(path, fix, content, r) ==
    [path |-> path, fix |-> fix, before |-> content,
     violations |-> r.violations, writes |-> r.writes,
     after |-> AfterScan(content, r.writes)]

\* scan_file(path, fix) when path.read_text succeeds
ScanFile(path, fix) ==
    /\ Len(log) < MaxScans
    /\ log' = Append(log, ScanRecord(path, fix, disk[path],
                                     scan_file(path, disk[path], fix)))
    /\ disk' = [disk EXCEPT ![path] = log'[Len(log')].after]
    /\ UNCHANGED <<date_str, result, passes, run>>

\* scan_file(path, fix) when path.read_text raises
ScanFileUnreadable(path, fix) ==
    /\ Len(log) < MaxScans
    /\ log' = Append(log, [path |-> path, fix |-> fix,
                           before |-> disk[path],
                           violations |-> <<Violation(path, "io_error",
                                                      "cannot read the file",
                                                      FALSE)>>,
                           writes |-> <<>>, after |-> disk[path]])
    /\ UNCHANGED <<disk, date_str, result, passes, run>>

Next ==
    \E path \in Files, fix \in BOOLEAN :
        \/ ScanFile(path, fix)
        \/ ScanFileUnreadable(path, fix)

Spec == Init /\ [][Next]_vars

-----------------------------------------------------------------------------
(* The weekday validator on its own *)

YearSpan == 2

Years == {0, 1, 1900, 2000, 9999} \cup (2024..(2024 + YearSpan - 1))

Glyphs == {"yi", "er", "san", "si", "wu", "liu", "ri"}

\* every year-month-day digit combination of the years above, the
\* impossible ones included
AllDates == {DateTok(yy, mm, dd) : yy \in Years, mm \in 0..13, dd \in 0..32}

\* the week of the spec's examples, and two impossible dates
FewDates ==
    {DateTok(2025, 9, dd) : dd \in 15..21}
    \cup {DateTok(2025, 2, 30), DateTok(2023, 2, 29)}

\* "<pre><date><ws1>10:00:00<ws2>(UTC+8)<ws3>周<glyph><post>"
Shaped(pre, date, ws1, ws2, ws3, glyph, post) ==
    pre \o <<date>> \o ws1 \o <<T1>> \o ws2 \o <<UTC8>> \o ws3
    \o <<ZHOU, Tk(glyph)>> \o post

WeekdayInputs ==
    { Tail(Stamp(date, glyph)) : date \in AllDates, glyph \in Glyphs }
    \cup
    { Shaped(pre, date, ws1, ws2, ws3, glyph, post) :
        pre \in {<<>>, <<Tk("txt"), SP>>},
        date \in FewDates,
        ws1 \in {<<SP>>, <<SP, SP>>, <<TAB>>},
        ws2 \in {<<>>, <<SP>>},
        ws3 \in {<<>>, <<SP>>},
        glyph \in Glyphs,
        post \in {<<>>, <<SP, Tk("txt")>>,
                  <<SP>> \o Tail(Stamp(DateTok(2025, 9, 17), "san"))} }
    \cup
    { <<>>, <<Tk("txt")>>, <<DateTok(2025, 9, 16)>>,
      <<DateTok(2025, 9, 16), SP, T1>>,
      <<DateTok(2025, 9, 16), T1, SP, UTC8, SP, ZHOU, Tk("yi")>>,
      <<Tk("YYYY-MM-DD"), SP, Tk("HH:MM"), SP, UTC8>> }

WeekdayInit ==
    /\ disk = [path \in Files |-> <<>>]
    /\ log = <<>>
    /\ date_str \in WeekdayInputs
    /\ result = NoResult
    /\ passes = 0
    /\ run = NoRun

\* validate_date_weekday(date_str)
Validate ==
    /\ passes = 0
    /\ result' = validate_date_weekday(date_str)
    /\ passes' = 1
    /\ UNCHANGED <<disk, log, date_str, run>>

\* validate_date_weekday on the corrected string the call before returned
Revalidate ==
    /\ passes >= 1
    /\ result.corrected_date_str # None
    /\ date_str' = result.corrected_date_str[1]
    /\ result' = validate_date_weekday(result.corrected_date_str[1])
    /\ passes' = passes + 1
    /\ UNCHANGED <<disk, log, run>>

WeekdayNext == Validate \/ Revalidate

WeekdaySpec == WeekdayInit /\ [][WeekdayNext]_vars

-----------------------------------------------------------------------------
(* main: one run of the command over a root directory *)

EXCLUDE_DIR_NAMES == {"build", "_deps", ".git", ".idea", ".vscode"}

FILE_EXT == {".h", ".hpp", ".hh", ".cpp", ".cxx", ".cc", ".c"}

\* p.lower() of a directory name
LowerName(part) == IF part = "Build" THEN "build" ELSE part

\* p.suffix of a file name
Suffix(name) ==
    CASE name \in {"a.h", "c.h"} -> ".h"
      [] name = "b.cpp" -> ".cpp"
      [] name = "n.txt" -> ".txt"
      [] OTHER -> ""

\* what root.rglob("*") can yield, in the order it yields it: directories
\* and files, each with the directories between the root and it
TreeEntries ==
    << [name |-> "a.h", parts |-> <<>>, is_dir |-> FALSE],
       [name |-> "n.txt", parts |-> <<>>, is_dir |-> FALSE],
       [name |-> "src", parts |-> <<>>, is_dir |-> TRUE],
       [name |-> "b.cpp", parts |-> <<"src">>, is_dir |-> FALSE],
       [name |-> "Build", parts |-> <<>>, is_dir |-> TRUE],
       [name |-> "c.h", parts |-> <<"Build">>, is_dir |-> FALSE] >>

is_excluded(p) ==
    \E i \in 1..Len(p.parts) : LowerName(p.parts[i]) \in EXCLUDE_DIR_NAMES

\* the entries of a tree that collect_files keeps
Eligible(p) == ~p.is_dir /\ Suffix(p.name) \in FILE_EXT /\ ~is_excluded(p)

RECURSIVE NamesOf(_)
NamesOf(entries) ==
    IF entries = <<>> THEN <<>>
    ELSE <<Head(entries).name>> \o NamesOf(Tail(entries))

collect_files(tree) == NamesOf(SelectSeq(tree, Eligible))

\* errors = [v for v in all_violations if v.code not in {"weak_brief"}]
Errors(all_violations) ==
    SelectSeq(all_violations, LAMBDA v : v.code # "weak_brief")

\* a mutant: every violation counts as fatal
ExitStatus_any_violation(all_violations) ==
    IF all_violations = <<>> THEN 0 ELSE 1

\* return 0 if not errors else 1
ExitStatus(all_violations) ==
    IF Errors(all_violations) = <<>> THEN 0 ELSE 1

\* the summary line
SummaryLine(files, all_violations) ==
    IF all_violations # <<>>
    THEN [kind |-> "summary", files |-> Len(files),
          total |-> Len(all_violations),
          fatal |-> Len(Errors(all_violations))]
    ELSE [kind |-> "clean", files |-> Len(files)]

\* "[code] file: message (fixed)?"
ViolationLine(v) ==
    [kind |-> "violation", code |-> v.code, file |-> v.file,
     message |-> v.message, fixed |-> v.fix_applied]

RECURSIVE ViolationLines(_)
ViolationLines(all_violations) ==
    IF all_violations = <<>> THEN <<>>
    ELSE <<ViolationLine(Head(all_violations))>>
         \o ViolationLines(Tail(all_violations))

\* what main prints on stdout after the loop
Printed(quiet, files, all_violations) ==
    (IF quiet THEN <<>> ELSE <<SummaryLine(files, all_violations)>>)
    \o ViolationLines(all_violations)

\* the files of the trees of main's runs
MainNames == {"a.h", "n.txt", "b.cpp", "c.h"}

\* the contents of the eligible files: conformant, no header, a brief that
\* repeats the name, a wrong weekday
MainContents(name) ==
    { Header(TagLine("file", <<SP, Tk(name)>>)
             \o TagLine("brief", <<SP, Tk("txt")>>)
             \o TagLine("date", Stamp(DateTok(2025, 9, 16), "er"))) \o Code,
      Code,
      Header(TagLine("file", <<SP, Tk(name)>>)
             \o TagLine("brief", <<SP, Tk(name), SP, Tk("txt")>>)
             \o TagLine("date", Stamp(DateTok(2025, 9, 16), "er"))) \o Code,
      Header(TagLine("file", <<SP, Tk(name)>>)
             \o TagLine("brief", <<SP, Tk("txt")>>)
             \o TagLine("date", Stamp(DateTok(2025, 9, 16), "yi"))) \o Code }

\* the trees: every choice of files, each with its directory
Trees ==
    { SelectSeq(TreeEntries,
                LAMBDA p : p.name \in present \/ (p.is_dir /\
                    \E i \in 1..Len(TreeEntries) :
                        /\ TreeEntries[i].name \in present
                        /\ TreeEntries[i].parts = <<p.name>>)) :
        present \in SUBSET MainNames }

\* the environment of a run: the command line, the tree under the root, the
\* files that cannot be read and those that cannot be written
MainInit ==
    /\ disk \in { d \in [MainNames -> UNION {MainContents(n) : n \in MainNames}] :
                    /\ d["a.h"] \in MainContents("a.h")
                    /\ d["b.cpp"] \in MainContents("b.cpp")
                    /\ d["n.txt"] = Code
                    /\ d["c.h"] = Code }
    /\ log = <<>>
    /\ date_str = <<>>
    /\ result = NoResult
    /\ passes = 0
    /\ \E root_exists \in BOOLEAN, fix \in BOOLEAN, quiet \in BOOLEAN,
          tree \in Trees,
          unreadable \in {{}, {"a.h"}, {"b.cpp"}},
          readonly \in {{}, {"a.h"}, {"b.cpp"}} :
          /\ ~root_exists => (tree = <<>> /\ unreadable = {} /\ readonly = {})
          /\ run = [pc |-> "start", root_exists |-> root_exists,
                    fix |-> fix, quiet |-> quiet, tree |-> tree,
                    unreadable |-> unreadable, readonly |-> readonly,
                    files |-> <<>>, scanned |-> <<>>,
                    all_violations |-> <<>>, out |-> <<>>, err |-> <<>>,
                    status |-> None]

\* main up to the loop: the root is checked and the files are collected
MainStart ==
    /\ run.pc = "start"
    /\ run' = IF ~run.root_exists
              THEN [run EXCEPT !.pc = "done",
                               !.err = <<[kind |-> "no root"]>>,
                               !.status = Some(2)]
              ELSE [run EXCEPT !.pc = "scan",
                               !.files = collect_files(run.tree)]
    /\ UNCHANGED <<disk, log, date_str, result, passes>>

\* the file the loop of main is at
NextFile == run.files[Len(run.scanned) + 1]

\* one turn of the loop, scan_file reading and writing without failure
MainScanStep(f, r) ==
    /\ r.writes # <<>> => f \notin run.readonly
    /\ disk' = [disk EXCEPT ![f] = AfterScan(disk[f], r.writes)]
    /\ run' = [run EXCEPT !.scanned = Append(@, f),
                          !.all_violations = @ \o r.violations]

MainScan ==
    /\ run.pc = "scan"
    /\ Len(run.scanned) < Len(run.files)
    /\ NextFile \notin run.unreadable
    /\ MainScanStep(NextFile, scan_file(NextFile, disk[NextFile], run.fix))
    /\ UNCHANGED <<log, date_str, result, passes>>

\* one turn of the loop, path.read_text raising: scan_file returns io_error
MainScanUnreadable ==
    /\ run.pc = "scan"
    /\ Len(run.scanned) < Len(run.files)
    /\ NextFile \in run.unreadable
    /\ run' = [run EXCEPT !.scanned = Append(@, NextFile),
                          !.all_violations =
                              Append(@, Violation(NextFile, "io_error",
                                                  "cannot read the file",
                                                  FALSE))]
    /\ UNCHANGED <<disk, log, date_str, result, passes>>

\* one turn of the loop, path.write_text raising: nothing in scan_file or
\* main catches the exception, the interpreter prints the traceback and
\* exits with status 1
MainScanWriteFails ==
    /\ run.pc = "scan"
    /\ Len(run.scanned) < Len(run.files)
    /\ NextFile \notin run.unreadable
    /\ NextFile \in run.readonly
    /\ scan_file(NextFile, disk[NextFile], run.fix).writes # <<>>
    /\ run' = [run EXCEPT !.pc = "crashed",
                          !.err = <<[kind |-> "traceback"]>>,
                          !.status = Some(1)]
    /\ UNCHANGED <<disk, log, date_str, result, passes>>

\* main after the loop: the summary, the violations, the exit status
MainFinish ==
    /\ run.pc = "scan"
    /\ Len(run.scanned) = Len(run.files)
    /\ run' = [run EXCEPT !.pc = "done",
                          !.out = Printed(run.quiet, run.files,
                                          run.all_violations),
                          !.status = Some(ExitStatus(run.all_violations))]
    /\ UNCHANGED <<disk, log, date_str, result, passes>>

MainNext ==
    \/ MainStart
    \/ MainScan
    \/ MainScanUnreadable
    \/ MainScanWriteFails
    \/ MainFinish

MainSpec == MainInit /\ [][MainNext]_vars

-----------------------------------------------------------------------------
(* Vocabulary of the properties *)

Entries == {log[i] : i \in 1..Len(log)}

Range(seq) == {seq[i] : i \in 1..Len(seq)}

\* the scan read the file
WasRead(e) == \A v \in Range(e.violations) : v.code # "io_error"

\* the violations of a scan that are marked as fixed, in order; write k of
\* the scan is the write of the k-th of them
Fixed(e) == SelectSeq(e.violations, LAMBDA v : v.fix_applied)

\* the same violation as check mode words it
CheckMessage(message) ==
    CASE message = "header missing, inserted" -> "header missing"
      [] message = "@file missing, added" -> "@file missing"
      [] message = "@file corrected" -> "@file differs from the file name"
      [] message = "@brief missing, placeholder added" ->
             "@brief missing or empty"
      [] message = "@date weekday fixed" -> "@date weekday wrong"
      [] message = "@change weekday fixed" -> "@change weekday wrong"
      [] OTHER -> message

\* the rule that produced v fires on content
Triggers(v, content) ==
    \E w \in Range(scan_file(v.file, content, FALSE).violations) :
        w.code = v.code /\ w.message = CheckMessage(v.message)

\* the content before write k of scan e
BeforeWrite(e, k) == IF k = 1 THEN e.before ELSE e.writes[k - 1]

\* a real day of the Gregorian calendar, years 1 to 9999
IsCalendarDate(t) ==
    /\ t.y >= 1 /\ t.y <= 9999
    /\ t.m >= 1 /\ t.m <= 12
    /\ t.d >= 1
    /\ t.d <= (CASE t.m \in {1, 3, 5, 7, 8, 10, 12} -> 31
                 [] t.m \in {4, 6, 9, 11} -> 30
                 [] OTHER -> IF t.y % 400 = 0 \/ (t.y % 4 = 0 /\ t.y % 100 # 0)
                             THEN 29 ELSE 28)

\* Zeller's congruence, turned to 0 = Monday ... 6 = Sunday
Zeller(t) ==
    LET mm == IF t.m < 3 THEN t.m + 12 ELSE t.m
        yy == IF t.m < 3 THEN t.y - 1 ELSE t.y
        h == (t.d + ((13 * (mm + 1)) \div 5) + (yy % 100)
              + ((yy % 100) \div 4) + ((yy \div 100) \div 4)
              + 5 * (yy \div 100)) % 7
    IN  (h + 5) % 7

\* Monday = 一 ... Sunday = 日
GregorianGlyph(t) ==
    Tk(<<"yi", "er", "san", "si", "wu", "liu", "ri">>[Zeller(t) + 1])

\* the first date+time+(UTC+8)+周<glyph> of the validator's input
Matched == DATE_WITH_WEEKDAY_RE_search(date_str)

-----------------------------------------------------------------------------
(* Properties C1 .. C10 *)

\* C1: two fix-mode scans in succession, both having read the file, the
\* first one having met only violations it marked as fixed (missing header,
\* missing or mismatched @file, missing @brief, wrong weekday) or
\* weak_brief: the second scan returns no violation other than weak_brief.
C1_SecondFixRunIsClean ==
    \A i \in 1..(Len(log) - 1) :
        ( /\ log[i].fix /\ log[i + 1].fix
          /\ WasRead(log[i]) /\ WasRead(log[i + 1])
          /\ \A v \in Range(log[i].violations) :
                 v.fix_applied \/ v.code = "weak_brief" )
        => \A v \in Range(log[i + 1].violations) : v.code = "weak_brief"

\* C2: two fix-mode scans in succession of a file the first one found
\* non-conformant: the content on disk after the second scan is the content
\* after the first.
C2_FixedPointAfterOnePass ==
    \A i \in 1..(Len(log) - 1) :
        ( /\ log[i].fix /\ log[i + 1].fix
          /\ WasRead(log[i]) /\ WasRead(log[i + 1])
          /\ log[i].violations # <<>> )
        => log[i + 1].after = log[i].after

\* C3: a fix-mode scan that applied several fixes leaves on disk a content
\* that holds the effect of each of them: none of the rules it marked as
\* fixed fires on the content the scan ends with.
C3_EveryFixIsInTheFinalContent ==
    \A e \in Entries :
        (e.fix /\ Len(Fixed(e)) >= 2)
        => \A v \in Range(Fixed(e)) : ~Triggers(v, e.after)

\* C4: a violation marked fix_applied was really fixed: the content its
\* fix step wrote differs from the content before that step, and the rule
\* fires no more on it.
C4_FixAppliedMeansFixed ==
    \A e \in Entries :
        \A k \in 1..Len(Fixed(e)) :
            /\ k <= Len(e.writes)
            /\ e.writes[k] # BeforeWrite(e, k)
            /\ ~Triggers(Fixed(e)[k], e.writes[k])

\* C5: a fix-mode scan that reports missing_header writes the file once:
\* a header block that holds "@file <the file's name>", followed by the
\* content the file had; it returns that one violation, marked fixed.
C5_MissingHeaderFix ==
    \A e \in Entries :
        (e.fix /\ \E v \in Range(e.violations) : v.code = "missing_header")
        => /\ e.violations = <<Violation(e.path, "missing_header",
                                         "header missing, inserted", TRUE)>>
           /\ Len(e.writes) = 1
           /\ e.after = e.writes[1]
           /\ LET w == e.writes[1]
                  n == Len(w) - Len(e.before)
              IN  /\ n > 0
                  /\ SubSeq(w, n + 1, Len(w)) = e.before
                  /\ w[1] = OPEN
                  /\ SubSeq(w, n - 1, n) = <<CLOSE, NL>>
                  /\ Find(SubSeq(w, 1, n), <<CLOSE>>, 1) = n - 1
                  /\ Contains(SubSeq(w, 1, n),
                              <<NL, SP, STAR, SP, Tk("@file"), SP,
                                Tk(e.path), NL>>)

C5_Witness ==
    \E e \in Entries :
        /\ e.fix /\ e.before = Code
        /\ e.violations = <<Violation(e.path, "missing_header",
                                      "header missing, inserted", TRUE)>>
        /\ e.after # e.before

\* C6: the @file rule compares the first word of the @file value with the
\* file's name; a fix-mode scan that reports file_name_mismatch writes a
\* header that is the header read with that word, at one place, replaced by
\* the name, and nothing else of it changed.
C6_OnlyTheDeclaredNameIsReplaced ==
    \A e \in Entries :
        (e.fix /\ WasRead(e) /\ HEADER_RE_search(e.before).found
               /\ tags_of(HEADER_RE_search(e.before).body)["file"]
                      \notin {None, Some(<<>>)})
        => LET body == HEADER_RE_search(e.before).body
               declared == FirstWord(tags_of(body)["file"][1])
               reported == \E v \in Range(e.violations) :
                               v.code = "file_name_mismatch"
           IN  /\ reported <=> declared # name_of(e.path)
               /\ reported =>
                    /\ e.violations[1].code = "file_name_mismatch"
                    /\ e.violations[1].fix_applied
                    /\ HEADER_RE_search(e.writes[1]).found
                    /\ \E at \in 1..Len(body) :
                          /\ OccursAt(body, declared, at)
                          /\ HEADER_RE_search(e.writes[1]).body =
                                SubSeq(body, 1, at - 1) \o name_of(e.path)
                                \o Tail_from(body, at + Len(declared))

\* C7: an input whose first date+time+(UTC+8)+周<glyph> names a real date
\* and another glyph than the calendar's: the result is invalid,
\* correct_weekday is the calendar's glyph, declared_weekday the declared
\* one, and the corrected string is the input with that one glyph replaced.
C7_CorrectedIsInputButTheGlyph ==
    ( /\ passes = 1
      /\ Matched.ok
      /\ IsCalendarDate(Matched.date)
      /\ Matched.weekday # GregorianGlyph(Matched.date) )
    => /\ ~result.is_valid
       /\ result.error_message # None
       /\ result.correct_weekday = Some(GregorianGlyph(Matched.date))
       /\ result.declared_weekday = Some(Matched.weekday)
       /\ result.corrected_date_str =
             Some([date_str EXCEPT ![Matched.end] =
                                       GregorianGlyph(Matched.date)])

\* C8: validating the corrected string that a validation returned gives
\* is_valid = true.
C8_CorrectedStringIsValid == passes >= 2 => result.is_valid

C8_Witness ==
    /\ passes = 2
    /\ result.is_valid
    /\ date_str = Tail(Stamp(DateTok(2025, 9, 16), "er")) \o <<SP>>
                  \o Tail(Stamp(DateTok(2025, 9, 17), "er"))

\* C9: the glyph the validator expects for a real date (the declared one
\* when it says valid, correct_weekday when it says invalid) is the
\* Gregorian weekday of the date, Monday = yi ... Sunday = ri; for
\* 2025-09-15 .. 2025-09-21 these are yi, er, san, si, wu, liu, ri.
C9_ExpectedGlyphIsTheGregorianWeekday ==
    (passes >= 1 /\ Matched.ok /\ IsCalendarDate(Matched.date))
    => LET expected == IF result.is_valid THEN Some(Matched.weekday)
                       ELSE result.correct_weekday
       IN  /\ expected = Some(GregorianGlyph(Matched.date))
           /\ \A n \in 0..6 :
                  Matched.date = DateTok(2025, 9, 15 + n)
                  => expected = Some(Tk(<<"yi", "er", "san", "si", "wu",
                                          "liu", "ri">>[n + 1]))

C9_Witness ==
    /\ passes = 1
    /\ date_str = Tail(Stamp(DateTok(2000, 2, 29), "ri"))
    /\ result.correct_weekday = Some(Tk("er"))

\* C10: a scan of a file whose @date value holds the pattern with a date
\* that is no real calendar date: the validator's result is invalid, with
\* the message that the date cannot be parsed and no corrected string; the
\* scan, in fix mode too, reports wrong_weekday for @date not marked as
\* fixed, and every write of the scan belongs to another, fixed violation.
C10_UnparsableDateIsReportedNotFixed ==
    \A e \in Entries :
        (WasRead(e) /\ HEADER_RE_search(e.before).found)
        => LET date == tags_of(HEADER_RE_search(e.before).body)["date"]
               mt == DATE_WITH_WEEKDAY_RE_search(date[1])
           IN  (date # None /\ mt.ok /\ ~IsCalendarDate(mt.date))
               => /\ validate_date_weekday(date[1]) =
                        WeekdayValidationResult(FALSE,
                            Some(UnparsableMessage(mt.date)),
                            None, None, None)
                  /\ \E i \in 1..Len(e.violations) :
                        e.violations[i] =
                            Violation(e.path, "wrong_weekday",
                                      "@date weekday wrong", FALSE)
                  /\ \A v \in Range(e.violations) :
                        v.message # "@date weekday fixed"
                  /\ Len(e.writes) = Len(Fixed(e))

C10_Witness ==
    \E e \in Entries :
        /\ e.fix
        /\ e.violations = <<Violation(e.path, "wrong_weekday",
                                      "@date weekday wrong", FALSE)>>
        /\ e.writes = <<>>
        /\ e.after = e.before

-----------------------------------------------------------------------------
(* Properties C11 .. C19 *)

\* main has ended, by returning or by an exception nothing caught
Ended == run.pc \in {"done", "crashed"}

\* the codes of a sequence of violations, in order
RECURSIVE Codes(_)
Codes(violations) ==
    IF violations = <<>> THEN <<>>
    ELSE <<Head(violations).code>> \o Codes(Tail(violations))

C12_OneFileNeverAbortsTheScan ==
    (Ended /\ run.root_exists)
    => /\ run.pc = "done"
       /\ run.scanned = run.files
       /\ run.status \in {Some(0), Some(1)}
       /\ ~run.quiet => run.out # <<>>
       /\ \A f \in Range(run.files) \cap run.unreadable :
             SelectSeq(run.all_violations, LAMBDA v : v.file = f)
             = <<Violation(f, "io_error", "cannot read the file", FALSE)>>

\* the value of the first match of each tag
FirstValue(ms, idx) ==
    IF idx = {} THEN None ELSE Some(strip(ms[Least(idx)].value))

FirstTagDict(ms) ==
    [t \in TagNames |-> FirstValue(ms, {i \in 1..Len(ms) : ms[i].tag = t})]

\* C13: a scan of a file with a header returns the violations the rules
\* give when each tag has the value of its first occurrence in the header
\* body.
C13_FirstOccurrenceIsUsed ==
    \A e \in Entries :
        (WasRead(e) /\ HEADER_RE_search(e.before).found)
        => e.violations =
              CheckTags(ScanState(e.before), e.path,
                        HEADER_RE_search(e.before).body,
                        FirstTagDict(TAG_RE_finditer(
                            HEADER_RE_search(e.before).body, 1)),
                        e.fix).violations

\* what each tag rule reports, from the value of its own tag alone
FileRule(value, name) ==
    IF value \in {None, Some(<<>>)} THEN <<"missing_file_tag">>
    ELSE IF FirstWord(value[1]) # name THEN <<"file_name_mismatch">>
    ELSE <<>>

BriefRule(value, name) ==
    IF value \in {None, Some(<<>>)} THEN <<"missing_brief">>
    ELSE IF startswith(lower(value[1]), lower(name)) THEN <<"weak_brief">>
    ELSE <<>>

StampRule(value) ==
    IF validate_date_weekday(value).is_valid THEN <<>>
    ELSE <<"wrong_weekday">>

DateRule(value) ==
    IF value \in {None, Some(<<>>)} THEN <<"missing_date">>
    ELSE IF \A i \in 1..Len(value[1]) : value[1][i].k # "date"
    THEN <<"bad_date">>
    ELSE StampRule(value[1])

ChangeRule(value) ==
    IF value \in {None, Some(<<>>)} THEN <<>>
    ELSE IF \A i \in 1..Len(value[1]) : value[1][i].k # "date"
    THEN <<"bad_change">>
    ELSE StampRule(value[1])

AllRules(tags, name) ==
    FileRule(tags["file"], name) \o BriefRule(tags["brief"], name)
    \o DateRule(tags["date"]) \o ChangeRule(tags["change"])

\* C14: a scan of a file in which no header is recognised returns exactly
\* one violation, missing_header; a scan of a file with a header returns no
\* missing_header, and the outcome of each of the @file, @brief, @date and
\* @change rules, in that order, each decided by its own tag alone.
C14_HeaderGatesTheTagRulesOnly ==
    \A e \in Entries :
        WasRead(e)
        => IF ~HEADER_RE_search(e.before).found
           THEN Codes(e.violations) = <<"missing_header">>
           ELSE Codes(e.violations) =
                    AllRules(tags_of(HEADER_RE_search(e.before).body),
                             name_of(e.path))

C14_Witness ==
    \E e \in Entries :
        Codes(e.violations) = <<"file_name_mismatch", "missing_brief",
                                "bad_date", "bad_change">>

\* C15: a scan of a file with a header reports missing_date exactly when
\* the date tag is absent, and bad_date exactly when the tag is present
\* with a value that holds no YYYY-MM-DD; neither is ever marked fixed.
C15_DatePresenceAndFormat ==
    \A e \in Entries :
        (WasRead(e) /\ HEADER_RE_search(e.before).found)
        => LET date == tags_of(HEADER_RE_search(e.before).body)["date"]
           IN  /\ (\E v \in Range(e.violations) : v.code = "missing_date")
                  <=> date = None
               /\ (\E v \in Range(e.violations) : v.code = "bad_date")
                  <=> (date # None /\ ~DATE_PREFIX_RE_search(date[1]))
               /\ \A v \in Range(e.violations) :
                     v.code \in {"missing_date", "bad_date"}
                     => ~v.fix_applied

\* the matches of TAG_RE in each line on its own
RECURSIVE LineMatches(_)
LineMatches(lines) ==
    IF lines = <<>> THEN <<>>
    ELSE TAG_RE_finditer(Head(lines), 1) \o LineMatches(Tail(lines))

\* the tags, the value of each being what follows it on its line
LineTags(header_body) == TagDict(LineMatches(splitlines(header_body)))

\* C16: a scan of a file with a header reports for @brief: missing_brief
\* when the tag is absent or nothing follows it on its line, weak_brief
\* when the value begins with the file's name whatever the case, nothing
\* otherwise; weak_brief is never marked fixed, and in fix mode
\* missing_brief is marked fixed.
C16_BriefPresenceAndQuality ==
    \A e \in Entries :
        (WasRead(e) /\ HEADER_RE_search(e.before).found)
        => /\ SelectSeq(Codes(e.violations),
                        LAMBDA c : c \in {"missing_brief", "weak_brief"})
              = BriefRule(LineTags(HEADER_RE_search(e.before).body)["brief"],
                          name_of(e.path))
           /\ \A v \in Range(e.violations) :
                 /\ v.code = "weak_brief" => ~v.fix_applied
                 /\ v.code = "missing_brief" => v.fix_applied = e.fix

\* C17: a run of main over an existing root prints the summary line, with
\* the number of files scanned, whatever the flags and the violations.
C17_SummaryAlwaysPrinted ==
    (Ended /\ run.root_exists)
    => /\ run.out # <<>>
       /\ run.out[1].kind \in {"summary", "clean"}
       /\ run.out[1].files = Len(collect_files(run.tree))

\* C18: a check-mode scan writes nothing: the content on disk after it is
\* the content before it, and none of its violations is marked fixed; after
\* check-mode scans only, the disk holds what it held at the start.
C18_CheckModeNeverWrites ==
    /\ \A i \in 1..Len(log) :
          ~log[i].fix
          => /\ log[i].writes = <<>>
             /\ log[i].after = log[i].before
             /\ i = Len(log) => disk[log[i].path] = log[i].before
             /\ \A v \in Range(log[i].violations) : ~v.fix_applied
    /\ (log # <<>> /\ \A e \in Entries : ~e.fix)
       => disk[log[1].path] = log[1].before

C18_Witness ==
    /\ Len(log) = 2
    /\ \A e \in Entries : ~e.fix
    /\ Codes(log[2].violations) = <<"file_name_mismatch", "missing_brief",
                                    "wrong_weekday", "wrong_weekday">>

\* C19: a fix-mode scan that fixed a tag rule leaves the content before the
\* opener of the first header block and the content after its closer as
\* they were.
C19_FixesStayInsideTheHeader ==
    \A e \in Entries :
        ( /\ e.fix /\ WasRead(e)
          /\ HEADER_RE_search(e.before).found
          /\ Fixed(e) # <<>> )
        => LET open == SkipSpace(e.before, 1)
               close == Find(e.before, <<CLOSE>>, open + 1)
           IN  /\ HEADER_RE_search(e.after).found
               /\ e.after = SubSeq(e.before, 1, open)
                            \o HEADER_RE_search(e.after).body
                            \o Tail_from(e.before, close)

=============================================================================
